---- MODULE Spec2Model ----
(***************************************************************************)
(* Candidate screening workflow of src/app.py: a LangGraph state graph     *)
(* categorize_experience -> assess_skillset -> route_app -> one terminal   *)
(* node -> END, driven by run_candidate_screening.  Classifier replies are *)
(* character sequences, so that strip(), lower() and the substring tests   *)
(* of the two normalisations are computed as the code computes them.       *)
(***************************************************************************)
EXTENDS Naturals, Integers, Sequences, FiniteSets, TLC

VARIABLES pc, states, result, input, replies, calls, trace, writes

vars == <<pc, states, result, input, replies, calls, trace, writes>>

(***************************************************************************)
(* Bounds of the model.                                                    *)
(***************************************************************************)
\* largest number of words in one classifier reply
MaxWords == 2

\* largest number of words in one reply of the specification with fairness
MaxFairWords == 1

\* the screenings that may be in flight together
Runs == {1, 2}

\* the screening of the single-request specification
SoloRuns == {1}

\* application texts (opaque to the workflow; the empty text is tolerated)
Apps == {"", "4 years C++, STL, embedded systems"}

(***************************************************************************)
(* Text: strings are sequences of one-character strings.                   *)
(***************************************************************************)
Upper == <<"A", "B", "C", "D", "E", "F", "G", "H", "I", "J", "K", "L", "M",
           "N", "O", "P", "Q", "R", "S", "T", "U", "V", "W", "X", "Y", "Z">>

Lower == <<"a", "b", "c", "d", "e", "f", "g", "h", "i", "j", "k", "l", "m",
           "n", "o", "p", "q", "r", "s", "t", "u", "v", "w", "x", "y", "z">>

\* A character is a one-character string; a character that has no TLA+
\* literal is written as the name of its code point ("U+00A0").

\* the characters str.strip() removes
Whitespace == {"\t", "\n", "U+000B", "\f", "\r", "U+001C", "U+001D",
               "U+001E", "U+001F", " ", "U+0085", "U+00A0", "U+1680",
               "U+2000", "U+2001", "U+2002", "U+2003", "U+2004", "U+2005",
               "U+2006", "U+2007", "U+2008", "U+2009", "U+200A", "U+2028",
               "U+2029", "U+202F", "U+205F", "U+3000"}

\* the printable ASCII characters other than the blank
AsciiPrintable == {"!", "\"", "#", "$", "%", "&", "'", "(", ")", "*", "+",
                   ",", "-", ".", "/", "0", "1", "2", "3", "4", "5", "6",
                   "7", "8", "9", ":", ";", "<", "=", ">", "?", "@", "A",
                   "B", "C", "D", "E", "F", "G", "H", "I", "J", "K", "L",
                   "M", "N", "O", "P", "Q", "R", "S", "T", "U", "V", "W",
                   "X", "Y", "Z", "[", "\\", "]", "^", "_", "U+0060", "a", "b",
                   "c", "d", "e", "f", "g", "h", "i", "j", "k", "l", "m",
                   "n", "o", "p", "q", "r", "s", "t", "u", "v", "w", "x",
                   "y", "z", "{", "|", "}", "~"}

\* the Latin-1 characters U+00A1..U+00FF
Latin1 == {"U+00A1", "U+00A2", "U+00A3", "U+00A4", "U+00A5", "U+00A6",
           "U+00A7", "U+00A8", "U+00A9", "U+00AA", "U+00AB", "U+00AC",
           "U+00AD", "U+00AE", "U+00AF", "U+00B0", "U+00B1", "U+00B2",
           "U+00B3", "U+00B4", "U+00B5", "U+00B6", "U+00B7", "U+00B8",
           "U+00B9", "U+00BA", "U+00BB", "U+00BC", "U+00BD", "U+00BE",
           "U+00BF", "U+00C0", "U+00C1", "U+00C2", "U+00C3", "U+00C4",
           "U+00C5", "U+00C6", "U+00C7", "U+00C8", "U+00C9", "U+00CA",
           "U+00CB", "U+00CC", "U+00CD", "U+00CE", "U+00CF", "U+00D0",
           "U+00D1", "U+00D2", "U+00D3", "U+00D4", "U+00D5", "U+00D6",
           "U+00D7", "U+00D8", "U+00D9", "U+00DA", "U+00DB", "U+00DC",
           "U+00DD", "U+00DE", "U+00DF", "U+00E0", "U+00E1", "U+00E2",
           "U+00E3", "U+00E4", "U+00E5", "U+00E6", "U+00E7", "U+00E8",
           "U+00E9", "U+00EA", "U+00EB", "U+00EC", "U+00ED", "U+00EE",
           "U+00EF", "U+00F0", "U+00F1", "U+00F2", "U+00F3", "U+00F4",
           "U+00F5", "U+00F6", "U+00F7", "U+00F8", "U+00F9", "U+00FA",
           "U+00FB", "U+00FC", "U+00FD", "U+00FE", "U+00FF"}

\* the upper-case letters of Latin-1 and their lower-case letters
Latin1Upper == <<"U+00C0", "U+00C1", "U+00C2", "U+00C3", "U+00C4",
                 "U+00C5", "U+00C6", "U+00C7", "U+00C8", "U+00C9",
                 "U+00CA", "U+00CB", "U+00CC", "U+00CD", "U+00CE",
                 "U+00CF", "U+00D0", "U+00D1", "U+00D2", "U+00D3",
                 "U+00D4", "U+00D5", "U+00D6", "U+00D8", "U+00D9",
                 "U+00DA", "U+00DB", "U+00DC", "U+00DD", "U+00DE">>

Latin1Lower == <<"U+00E0", "U+00E1", "U+00E2", "U+00E3", "U+00E4",
                 "U+00E5", "U+00E6", "U+00E7", "U+00E8", "U+00E9",
                 "U+00EA", "U+00EB", "U+00EC", "U+00ED", "U+00EE",
                 "U+00EF", "U+00F0", "U+00F1", "U+00F2", "U+00F3",
                 "U+00F4", "U+00F5", "U+00F6", "U+00F8", "U+00F9",
                 "U+00FA", "U+00FB", "U+00FC", "U+00FD", "U+00FE">>

\* the characters of the texts of the model: ASCII, Latin-1, the blanks of
\* str.strip(), and I WITH DOT ABOVE, COMBINING DOT ABOVE, KELVIN SIGN,
\* ANGSTROM SIGN
Chars ==
    AsciiPrintable \cup Whitespace \cup Latin1
        \cup {"U+0130", "U+0307", "U+212A", "U+212B"}

\* str.lower() of every character of Chars; the result is a string, since
\* "U+0130" lowers to the two characters "i" and "U+0307"
LowerMap ==
    [c \in Chars |->
        IF \E i \in 1..Len(Upper) : Upper[i] = c
        THEN <<Lower[CHOOSE i \in 1..Len(Upper) : Upper[i] = c]>>
        ELSE IF \E i \in 1..Len(Latin1Upper) : Latin1Upper[i] = c
        THEN <<Latin1Lower[CHOOSE i \in 1..Len(Latin1Upper) : Latin1Upper[i] = c]>>
        ELSE IF c = "U+0130" THEN <<"i", "U+0307">>
        ELSE IF c = "U+212A" THEN <<"k">>
        ELSE IF c = "U+212B" THEN <<"U+00E5">>
        ELSE <<c>>]

\* str.lower() on one character of Chars
lower_char(c) == LowerMap[c]

\* str.lower(): the lowered characters, concatenated
RECURSIVE lower(_)
lower(s) == IF Len(s) = 0 THEN <<>> ELSE lower_char(Head(s)) \o lower(Tail(s))

\* str.strip(): drop leading and trailing whitespace
strip(s) ==
    LET keep == {i \in 1..Len(s) : s[i] \notin Whitespace}
    IN  IF keep = {} THEN <<>>
        ELSE SubSeq(s, CHOOSE i \in keep : \A j \in keep : i <= j,
                       CHOOSE i \in keep : \A j \in keep : i >= j)

\* Python's `sub in s` on strings
Contains(sub, s) ==
    \E i \in 0..(Len(s) - Len(sub)) : SubSeq(s, i + 1, i + Len(sub)) = sub

\* dict.get(key, default)
get(d, key, default) == IF key \in DOMAIN d THEN d[key] ELSE default

\* the value of dict.get(key) for a missing key
None == "None"

(***************************************************************************)
(* The classifier port: what chain.invoke(...).content can be.             *)
(***************************************************************************)
Words == { <<"E", "n", "t", "r", "y", "-", "l", "e", "v", "e", "l">>,
           <<"M", "I", "D">>,
           <<"s", "e", "n", "i", "o", "r">>,
           <<"N", "o">>,
           <<"M", "a", "t", "c", "h">>,
           <<"U+00A0", "m", "U+0130", "d">> }

RECURSIVE Join(_)
Join(ws) ==
    IF Len(ws) = 0 THEN <<>>
    ELSE IF Len(ws) = 1 THEN ws[1]
    ELSE ws[1] \o <<" ">> \o Join(Tail(ws))

\* replies of up to n words, newline-terminated as the model sends them
Replies(n) ==
    { Join(ws) \o <<"\n">> : ws \in UNION { [1..k -> Words] : k \in 0..n } }

Contents == Replies(MaxWords)

FairContents == Replies(MaxFairWords)

\* the replies used when two screenings are interleaved
PairContents ==
    { <<"S", "e", "n", "i", "o", "r", "-", "l", "e", "v", "e", "l", "\n">>,
      <<"M", "a", "t", "c", "h", "\n">>,
      <<"N", "o", " ", "M", "a", "t", "c", "h", "\n">>,
      <<"n", "/", "a", "\n">> }

\* a classifier call returns a message or raises
Failure == [ok |-> FALSE, content |-> <<>>]

Outcomes(C) == { [ok |-> TRUE, content |-> c] : c \in C } \cup {Failure}

(***************************************************************************)
(* Normalisation of the two replies.                                       *)
(***************************************************************************)
\* exp with the keywords tested in the order senior, mid, entry
exp_senior_first(raw) ==
    IF Contains(<<"s", "e", "n", "i", "o", "r">>, lower(raw)) THEN "Senior-level"
    ELSE IF Contains(<<"m", "i", "d">>, lower(raw)) THEN "Mid-level"
    ELSE IF Contains(<<"e", "n", "t", "r", "y">>, lower(raw)) THEN "Entry-level"
    ELSE "Unknown"

\* app.py 41-48: first keyword present in the order entry, mid, senior
exp(raw) ==
    IF Contains(<<"e", "n", "t", "r", "y">>, lower(raw)) THEN "Entry-level"
    ELSE IF Contains(<<"m", "i", "d">>, lower(raw)) THEN "Mid-level"
    ELSE IF Contains(<<"s", "e", "n", "i", "o", "r">>, lower(raw)) THEN "Senior-level"
    ELSE "Unknown"

\* skill with "match" tested before "no match"
skill_match_first(raw) ==
    LET low == lower(raw)
    IN  IF Contains(<<"m", "a", "t", "c", "h">>, low) THEN "Match"
        ELSE IF Contains(<<"n", "o", " ", "m", "a", "t", "c", "h">>, low) THEN "No Match"
        ELSE "No Match"

\* skill whose fallback for an unrecognized reply is "Match"
skill_default_match(raw) ==
    LET low == lower(raw)
    IN  IF Contains(<<"n", "o", " ", "m", "a", "t", "c", "h">>, low) THEN "No Match"
        ELSE "Match"

\* skill whose fallback for an unrecognized reply is the label "Unknown"
skill_default_unknown(raw) ==
    LET low == lower(raw)
    IN  IF Contains(<<"n", "o", " ", "m", "a", "t", "c", "h">>, low) THEN "No Match"
        ELSE IF Contains(<<"m", "a", "t", "c", "h">>, low) THEN "Match"
        ELSE "Unknown"

\* app.py 61-68: "no match" is tested before "match"
skill(raw) ==
    LET low == lower(raw)
    IN  IF Contains(<<"n", "o", " ", "m", "a", "t", "c", "h">>, low) THEN "No Match"
        ELSE IF Contains(<<"m", "a", "t", "c", "h">>, low) THEN "Match"
        ELSE "No Match"

(***************************************************************************)
(* The graph.                                                              *)
(***************************************************************************)
Terminals == {"schedule_interview", "escalate_to_recruiter", "reject_application"}

\* route_app with the seniority test ahead of the skill test
route_app_seniority_first(state) ==
    IF get(state, "experience_level", None) = "Senior-level"
    THEN "escalate_to_recruiter"
    ELSE IF get(state, "skill_match", None) = "Match" THEN "schedule_interview"
    ELSE "reject_application"

\* route_app comparing the level with "Senior" instead of "Senior-level"
route_app_senior_label(state) ==
    IF get(state, "skill_match", None) = "Match" THEN "schedule_interview"
    ELSE IF get(state, "experience_level", None) = "Senior"
         THEN "escalate_to_recruiter"
    ELSE "reject_application"

\* route_app escalating every candidate who is not entry-level
route_app_escalate_non_entry(state) ==
    IF get(state, "skill_match", None) = "Match" THEN "schedule_interview"
    ELSE IF get(state, "experience_level", None) # "Entry-level"
         THEN "escalate_to_recruiter"
    ELSE "reject_application"

\* route_app whose last branch names a node the edge mapping does not have
route_app_unmapped(state) ==
    IF get(state, "skill_match", None) = "Match" THEN "schedule_interview"
    ELSE IF get(state, "experience_level", None) = "Senior-level"
         THEN "escalate_to_recruiter"
    ELSE "reject"

\* the conditional edge after assess_skillset
route_app(state) ==
    IF get(state, "skill_match", None) = "Match" THEN "schedule_interview"
    ELSE IF get(state, "experience_level", None) = "Senior-level"
         THEN "escalate_to_recruiter"
    ELSE "reject_application"

\* one state record shared by every invocation of the compiled graph
channel_write_shared(all, r, update) == [q \in DOMAIN all |-> update @@ all[q]]

\* a node's returned update is merged into the state record of its own run
channel_write(all, r, update) == [all EXCEPT ![r] = update @@ all[r]]

\* the keys of every update merged into the state record of run r, in order
log_write(all, r, update) == [all EXCEPT ![r] = Append(@, DOMAIN update)]

\* the record of a screening that was not started, or returned nothing
Empty == <<>>

Init ==
    /\ pc = [r \in Runs |-> "idle"]
    /\ states = [r \in Runs |-> Empty]
    /\ result = [r \in Runs |-> Empty]
    /\ input = [r \in Runs |-> ""]
    /\ replies = [r \in Runs |-> <<>>]
    /\ calls = [r \in Runs |-> <<>>]
    /\ trace = [r \in Runs |-> <<>>]
    /\ writes = [r \in Runs |-> <<>>]

\* run_candidate_screening on a graph whose START edge enters assess_skillset
run_candidate_screening_skip(r, application) ==
    /\ pc[r] = "idle"
    /\ pc' = [pc EXCEPT ![r] = "assess_skillset"]
    /\ input' = [input EXCEPT ![r] = application]
    /\ states' = [states EXCEPT ![r] = [application |-> application]]
    /\ writes' = log_write(writes, r, [application |-> application])
    /\ UNCHANGED <<result, replies, calls, trace>>

\* run_candidate_screening(application): app.invoke({"application": application})
run_candidate_screening(r, application) ==
    /\ pc[r] = "idle"
    /\ pc' = [pc EXCEPT ![r] = "categorize_experience"]
    /\ input' = [input EXCEPT ![r] = application]
    /\ states' = [states EXCEPT ![r] = [application |-> application]]
    /\ writes' = log_write(writes, r, [application |-> application])
    /\ UNCHANGED <<result, replies, calls, trace>>

\* categorize_experience up to its classifier call (line 38): chain.invoke is entered with
\* the application text and blocks until the classifier answers
categorize_experience_invoke(r) ==
    /\ pc[r] = "categorize_experience"
    /\ calls' = [calls EXCEPT ![r] = Append(@,
                    [node |-> "categorize_experience",
                     application |-> states[r]["application"]])]
    /\ trace' = [trace EXCEPT ![r] = Append(@, "categorize_experience")]
    /\ pc' = [pc EXCEPT ![r] = "categorize_experience.invoke"]
    /\ UNCHANGED <<states, result, input, replies, writes>>

\* categorize_experience catching the classifier's exception and going on
categorize_experience_swallow(r, o) ==
    /\ pc[r] = "categorize_experience.invoke"
    /\ replies' = [replies EXCEPT ![r] = Append(@, o)]
    /\ states' = channel_write(states, r,
                     [experience_level |->
                         IF o.ok THEN exp(strip(o.content)) ELSE "Unknown"])
    /\ writes' = log_write(writes, r, [experience_level |-> "Unknown"])
    /\ pc' = [pc EXCEPT ![r] = "assess_skillset"]
    /\ UNCHANGED <<result, input, calls, trace>>

\* categorize_experience returning an empty update for an unrecognized reply
categorize_experience_skip_unknown(r, o) ==
    /\ pc[r] = "categorize_experience.invoke"
    /\ replies' = [replies EXCEPT ![r] = Append(@, o)]
    /\ IF o.ok
       THEN /\ IF exp(strip(o.content)) = "Unknown"
               THEN /\ writes' = log_write(writes, r, <<>>)
                    /\ UNCHANGED states
               ELSE /\ states' = channel_write(states, r,
                                     [experience_level |-> exp(strip(o.content))])
                    /\ writes' = log_write(writes, r,
                                     [experience_level |-> exp(strip(o.content))])
            /\ pc' = [pc EXCEPT ![r] = "assess_skillset"]
       ELSE /\ pc' = [pc EXCEPT ![r] = "raised"]
            /\ UNCHANGED <<states, writes>>
    /\ UNCHANGED <<result, input, calls, trace>>

\* categorize_experience from the return of its classifier call; o is what
\* the call does
categorize_experience(r, o) ==
    /\ pc[r] = "categorize_experience.invoke"
    /\ replies' = [replies EXCEPT ![r] = Append(@, o)]
    /\ IF o.ok
       THEN /\ states' = channel_write(states, r,
                             [experience_level |-> exp(strip(o.content))])
            /\ writes' = log_write(writes, r,
                             [experience_level |-> exp(strip(o.content))])
            /\ pc' = [pc EXCEPT ![r] = "assess_skillset"]
       ELSE /\ pc' = [pc EXCEPT ![r] = "raised"]
            /\ UNCHANGED <<states, writes>>
    /\ UNCHANGED <<result, input, calls, trace>>

\* assess_skillset up to its classifier call (line 59): chain.invoke is entered with
\* the application text and blocks until the classifier answers
assess_skillset_invoke(r) ==
    /\ pc[r] = "assess_skillset"
    /\ calls' = [calls EXCEPT ![r] = Append(@,
                    [node |-> "assess_skillset",
                     application |-> states[r]["application"]])]
    /\ trace' = [trace EXCEPT ![r] = Append(@, "assess_skillset")]
    /\ pc' = [pc EXCEPT ![r] = "assess_skillset.invoke"]
    /\ UNCHANGED <<states, result, input, replies, writes>>

\* assess_skillset returning the application field, emptied, with its verdict
assess_skillset_clobber(r, o) ==
    /\ pc[r] = "assess_skillset.invoke"
    /\ replies' = [replies EXCEPT ![r] = Append(@, o)]
    /\ IF o.ok
       THEN /\ states' = channel_write(states, r,
                             [skill_match |-> skill(strip(o.content)),
                              application |-> ""])
            /\ writes' = log_write(writes, r,
                             [skill_match |-> skill(strip(o.content)),
                              application |-> ""])
            /\ pc' = [pc EXCEPT ![r] = "route_app"]
       ELSE /\ pc' = [pc EXCEPT ![r] = "raised"]
            /\ UNCHANGED <<states, writes>>
    /\ UNCHANGED <<result, input, calls, trace>>

\* assess_skillset from the return of its classifier call; o is what the
\* call does
assess_skillset(r, o) ==
    /\ pc[r] = "assess_skillset.invoke"
    /\ replies' = [replies EXCEPT ![r] = Append(@, o)]
    /\ IF o.ok
       THEN /\ states' = channel_write(states, r,
                             [skill_match |-> skill(strip(o.content))])
            /\ writes' = log_write(writes, r,
                             [skill_match |-> skill(strip(o.content))])
            /\ pc' = [pc EXCEPT ![r] = "route_app"]
       ELSE /\ pc' = [pc EXCEPT ![r] = "raised"]
            /\ UNCHANGED <<states, writes>>
    /\ UNCHANGED <<result, input, calls, trace>>

\* the conditional edge picks the next node from the mapping of lines 103-107
route(r) ==
    /\ pc[r] = "route_app"
    /\ pc' = [pc EXCEPT ![r] = route_app(states[r])]
    /\ trace' = [trace EXCEPT ![r] = Append(@, "route_app")]
    /\ UNCHANGED <<states, result, input, replies, calls, writes>>

schedule_interview(r) ==
    /\ pc[r] = "schedule_interview"
    /\ states' = channel_write(states, r, [response |-> "Interview Scheduled"])
    /\ writes' = log_write(writes, r, [response |-> "Interview Scheduled"])
    /\ trace' = [trace EXCEPT ![r] = Append(@, "schedule_interview")]
    /\ pc' = [pc EXCEPT ![r] = "END"]
    /\ UNCHANGED <<result, input, replies, calls>>

\* escalate_to_recruiter with its outgoing edge to reject_application
escalate_to_recruiter_then_reject(r) ==
    /\ pc[r] = "escalate_to_recruiter"
    /\ states' = channel_write(states, r, [response |-> "Candidate Escalated"])
    /\ writes' = log_write(writes, r, [response |-> "Candidate Escalated"])
    /\ trace' = [trace EXCEPT ![r] = Append(@, "escalate_to_recruiter")]
    /\ pc' = [pc EXCEPT ![r] = "reject_application"]
    /\ UNCHANGED <<result, input, replies, calls>>

\* escalate_to_recruiter also marking the skills as matching
escalate_to_recruiter_marks_match(r) ==
    /\ pc[r] = "escalate_to_recruiter"
    /\ states' = channel_write(states, r,
                     [response |-> "Candidate Escalated", skill_match |-> "Match"])
    /\ writes' = log_write(writes, r,
                     [response |-> "Candidate Escalated", skill_match |-> "Match"])
    /\ trace' = [trace EXCEPT ![r] = Append(@, "escalate_to_recruiter")]
    /\ pc' = [pc EXCEPT ![r] = "END"]
    /\ UNCHANGED <<result, input, replies, calls>>

escalate_to_recruiter(r) ==
    /\ pc[r] = "escalate_to_recruiter"
    /\ states' = channel_write(states, r, [response |-> "Candidate Escalated"])
    /\ writes' = log_write(writes, r, [response |-> "Candidate Escalated"])
    /\ trace' = [trace EXCEPT ![r] = Append(@, "escalate_to_recruiter")]
    /\ pc' = [pc EXCEPT ![r] = "END"]
    /\ UNCHANGED <<result, input, replies, calls>>

\* reject_application asking the classifier once more before rejecting
reject_application_with_call(r) ==
    /\ pc[r] = "reject_application"
    /\ calls' = [calls EXCEPT ![r] = Append(@,
                    [node |-> "reject_application",
                     application |-> states[r]["application"]])]
    /\ states' = channel_write(states, r, [response |-> "Candidate Rejected"])
    /\ writes' = log_write(writes, r, [response |-> "Candidate Rejected"])
    /\ trace' = [trace EXCEPT ![r] = Append(@, "reject_application")]
    /\ pc' = [pc EXCEPT ![r] = "END"]
    /\ UNCHANGED <<result, input, replies>>

\* reject_application returning an empty update
reject_application_noop(r) ==
    /\ pc[r] = "reject_application"
    /\ trace' = [trace EXCEPT ![r] = Append(@, "reject_application")]
    /\ writes' = log_write(writes, r, <<>>)
    /\ pc' = [pc EXCEPT ![r] = "END"]
    /\ UNCHANGED <<states, result, input, replies, calls>>

reject_application(r) ==
    /\ pc[r] = "reject_application"
    /\ states' = channel_write(states, r, [response |-> "Candidate Rejected"])
    /\ writes' = log_write(writes, r, [response |-> "Candidate Rejected"])
    /\ trace' = [trace EXCEPT ![r] = Append(@, "reject_application")]
    /\ pc' = [pc EXCEPT ![r] = "END"]
    /\ UNCHANGED <<result, input, replies, calls>>

\* lines 117-121: the result dict read back from the final state
readback(results) ==
    [experience_level |-> get(results, "experience_level", "Unknown"),
     skill_match |-> get(results, "skill_match", "No Match"),
     response |-> get(results, "response", "Candidate Rejected")]

\* run_candidate_screening returns once app.invoke has reached END
run_candidate_screening_return(r) ==
    /\ pc[r] = "END"
    /\ result' = [result EXCEPT ![r] = readback(states[r])]
    /\ pc' = [pc EXCEPT ![r] = "returned"]
    /\ UNCHANGED <<states, input, replies, calls, trace, writes>>

\* the steps of a screening that was started
Step(r, O) ==
    \/ categorize_experience_invoke(r)
    \/ \E o \in O : categorize_experience(r, o)
    \/ assess_skillset_invoke(r)
    \/ \E o \in O : assess_skillset(r, o)
    \/ route(r)
    \/ schedule_interview(r)
    \/ escalate_to_recruiter(r)
    \/ reject_application(r)
    \/ run_candidate_screening_return(r)

\* one screening, every reply of up to MaxWords words
Next ==
    \/ \E r \in SoloRuns, a \in Apps : run_candidate_screening(r, a)
    \/ \E r \in SoloRuns : categorize_experience_invoke(r)
    \/ \E r \in SoloRuns, o \in Outcomes(Contents) : categorize_experience(r, o)
    \/ \E r \in SoloRuns : assess_skillset_invoke(r)
    \/ \E r \in SoloRuns, o \in Outcomes(Contents) : assess_skillset(r, o)
    \/ \E r \in SoloRuns : route(r)
    \/ \E r \in SoloRuns : schedule_interview(r)
    \/ \E r \in SoloRuns : escalate_to_recruiter(r)
    \/ \E r \in SoloRuns : reject_application(r)
    \/ \E r \in SoloRuns : run_candidate_screening_return(r)

Spec == Init /\ [][Next]_vars

\* one screening, every reply of up to MaxFairWords words
FairNext ==
    \/ \E r \in SoloRuns, a \in Apps : run_candidate_screening(r, a)
    \/ \E r \in SoloRuns : categorize_experience_invoke(r)
    \/ \E r \in SoloRuns, o \in Outcomes(FairContents) : categorize_experience(r, o)
    \/ \E r \in SoloRuns : assess_skillset_invoke(r)
    \/ \E r \in SoloRuns, o \in Outcomes(FairContents) : assess_skillset(r, o)
    \/ \E r \in SoloRuns : route(r)
    \/ \E r \in SoloRuns : schedule_interview(r)
    \/ \E r \in SoloRuns : escalate_to_recruiter(r)
    \/ \E r \in SoloRuns : reject_application(r)
    \/ \E r \in SoloRuns : run_candidate_screening_return(r)

\* a started screening keeps executing: the interpreter runs the call to its
\* end, and a blocking classifier call returns or raises
FairSpec ==
    /\ Init
    /\ [][FairNext]_vars
    /\ \A r \in SoloRuns : WF_vars(Step(r, Outcomes(FairContents)))

\* two screenings interleaved in any order
PairNext ==
    \/ \E r \in Runs, a \in Apps : run_candidate_screening(r, a)
    \/ \E r \in Runs : categorize_experience_invoke(r)
    \/ \E r \in Runs, o \in Outcomes(PairContents) : categorize_experience(r, o)
    \/ \E r \in Runs : assess_skillset_invoke(r)
    \/ \E r \in Runs, o \in Outcomes(PairContents) : assess_skillset(r, o)
    \/ \E r \in Runs : route(r)
    \/ \E r \in Runs : schedule_interview(r)
    \/ \E r \in Runs : escalate_to_recruiter(r)
    \/ \E r \in Runs : reject_application(r)
    \/ \E r \in Runs : run_candidate_screening_return(r)

PairSpec == Init /\ [][PairNext]_vars

TypeOK ==
    /\ pc \in [Runs -> {"idle", "categorize_experience",
                        "categorize_experience.invoke", "assess_skillset",
                        "assess_skillset.invoke", "route_app", "END",
                        "returned", "raised"} \cup Terminals]
    /\ \A r \in Runs : DOMAIN states[r] \subseteq
           {"application", "experience_level", "skill_match", "response"}

(***************************************************************************)
(* Vocabulary of the properties.                                           *)
(***************************************************************************)
Responses == {"Interview Scheduled", "Candidate Escalated", "Candidate Rejected"}

Fields == {"experience_level", "skill_match", "response"}

\* the run reached END (its terminal node has executed)
Ended(r) == pc[r] \in {"END", "returned"}

\* a classifier call of run r raised
Failed(r) == \E i \in 1..Len(replies[r]) : ~replies[r][i].ok

\* the i-th reply of run r as the node sees it, lower-cased
Low(r, i) == lower(strip(replies[r][i].content))

KwEntry == <<"e", "n", "t", "r", "y">>
KwMid == <<"m", "i", "d">>
KwSenior == <<"s", "e", "n", "i", "o", "r">>
KwNoMatch == <<"n", "o", " ", "m", "a", "t", "c", "h">>
KwMatch == <<"m", "a", "t", "c", "h">>

\* C1: once skill_match is "Match" the run never enters the escalate or
\* reject node, and it ends with (and returns) response "Interview Scheduled",
\* whatever experience_level is.
RoutingPrecedence ==
    \A r \in Runs :
        get(states[r], "skill_match", None) = "Match" =>
            /\ pc[r] \notin {"escalate_to_recruiter", "reject_application"}
            /\ Ended(r) => get(states[r], "response", None) = "Interview Scheduled"
            /\ pc[r] = "returned" => result[r]["response"] = "Interview Scheduled"

\* a senior candidate with matching skills was scheduled
RoutingPrecedenceWitness ==
    \E r \in Runs :
        /\ pc[r] = "returned"
        /\ states[r]["skill_match"] = "Match"
        /\ states[r]["experience_level"] = "Senior-level"
        /\ result[r]["response"] = "Interview Scheduled"

\* C2: a run whose skill_match was set to something other than "Match" and
\* whose experience_level is "Senior-level" never enters the schedule or
\* reject node and ends with (and returns) response "Candidate Escalated".
SeniorEscalated ==
    \A r \in Runs :
        ( /\ "skill_match" \in DOMAIN states[r]
          /\ states[r]["skill_match"] # "Match"
          /\ get(states[r], "experience_level", None) = "Senior-level" ) =>
            /\ pc[r] \notin {"schedule_interview", "reject_application"}
            /\ Ended(r) => get(states[r], "response", None) = "Candidate Escalated"
            /\ pc[r] = "returned" => result[r]["response"] = "Candidate Escalated"

SeniorEscalatedWitness ==
    \E r \in Runs :
        /\ pc[r] = "returned"
        /\ states[r]["skill_match"] = "No Match"
        /\ states[r]["experience_level"] = "Senior-level"
        /\ result[r]["response"] = "Candidate Escalated"

\* C3: a run whose skill_match was set to something other than "Match" and
\* whose experience_level is not "Senior-level" never enters the schedule or
\* escalate node and ends with (and returns) response "Candidate Rejected".
OthersRejected ==
    \A r \in Runs :
        ( /\ "skill_match" \in DOMAIN states[r]
          /\ states[r]["skill_match"] # "Match"
          /\ get(states[r], "experience_level", None) # "Senior-level" ) =>
            /\ pc[r] \notin {"schedule_interview", "escalate_to_recruiter"}
            /\ Ended(r) => get(states[r], "response", None) = "Candidate Rejected"
            /\ pc[r] = "returned" => result[r]["response"] = "Candidate Rejected"

\* a mid-level candidate without matching skills was rejected
OthersRejectedWitness ==
    \E r \in Runs :
        /\ pc[r] = "returned"
        /\ states[r]["skill_match"] = "No Match"
        /\ states[r]["experience_level"] = "Mid-level"
        /\ result[r]["response"] = "Candidate Rejected"

\* C4: every started run in which no classifier call fails eventually
\* returns, and a returned response is one of the three responses.
Terminates ==
    /\ [](\A r \in Runs : pc[r] = "returned" => result[r]["response"] \in Responses)
    /\ \A r \in Runs :
          (pc[r] # "idle") ~>
              (Failed(r) \/ (pc[r] = "returned" /\ result[r]["response"] \in Responses))

\* a run with two classifier replies and no failure has returned
TerminatesWitness ==
    \E r \in Runs :
        /\ pc[r] = "returned"
        /\ Len(replies[r]) = 2
        /\ ~Failed(r)
        /\ result[r]["response"] \in Responses

\* C5: a run with a failed classifier call is aborted: it stays raised at the
\* failing call, returns no result, executes no terminal node and never has
\* a response.
FailurePropagates ==
    \A r \in Runs :
        Failed(r) =>
            /\ pc[r] = "raised"
            /\ ~replies[r][Len(replies[r])].ok
            /\ DOMAIN result[r] = {}
            /\ "response" \notin DOMAIN states[r]
            /\ \A i \in 1..Len(trace[r]) : trace[r][i] \notin Terminals \cup {"route_app"}

\* the classifier failed in the skill stage, after the level was set
FailurePropagatesWitness ==
    \E r \in Runs :
        /\ pc[r] = "raised"
        /\ Len(replies[r]) = 2
        /\ replies[r][1].ok
        /\ ~replies[r][2].ok
        /\ "experience_level" \in DOMAIN states[r]

\* C6: skill_match is "No Match" for every skill reply containing "no match"
\* (case-insensitively), and it is "Match" only for a reply that contains
\* "match" and does not contain "no match".
SkillTieBreak ==
    \A r \in Runs :
        "skill_match" \in DOMAIN states[r] =>
            /\ Contains(KwNoMatch, Low(r, 2)) => states[r]["skill_match"] = "No Match"
            /\ states[r]["skill_match"] = "Match" =>
                   Contains(KwMatch, Low(r, 2)) /\ ~Contains(KwNoMatch, Low(r, 2))
            /\ states[r]["skill_match"] \in {"Match", "No Match"}

\* the reply "No Match" (which contains "match") was normalized to "No Match"
SkillTieBreakWitness ==
    \E r \in Runs :
        /\ "skill_match" \in DOMAIN states[r]
        /\ Contains(KwNoMatch, Low(r, 2))
        /\ Contains(KwMatch, Low(r, 2))
        /\ states[r]["skill_match"] = "No Match"

\* the level keyword of highest priority (entry, mid, senior) a text contains
PriorityLevel(low) ==
    LET kw == <<KwEntry, KwMid, KwSenior>>
        level == <<"Entry-level", "Mid-level", "Senior-level">>
        present == {k \in 1..3 : Contains(kw[k], low)}
    IN  level[CHOOSE k \in present : \A j \in present : k <= j]

\* how many of the three level keywords a text contains
KeywordCount(low) ==
    Cardinality({k \in {KwEntry, KwMid, KwSenior} : Contains(k, low)})

\* the first position at which sub occurs in s
Position(sub, s) ==
    CHOOSE i \in 1..Len(s) :
        /\ SubSeq(s, i, i + Len(sub) - 1) = sub
        /\ \A j \in 1..(i - 1) : SubSeq(s, j, j + Len(sub) - 1) # sub

\* C7: for an experience reply containing more than one of the keywords
\* entry, mid, senior, experience_level is the level of the first keyword
\* present in that fixed order, wherever the keywords stand in the reply.
ExperiencePriority ==
    \A r \in Runs :
        ( /\ "experience_level" \in DOMAIN states[r]
          /\ KeywordCount(Low(r, 1)) > 1 ) =>
            states[r]["experience_level"] = PriorityLevel(Low(r, 1))

\* a reply with "senior" standing before "entry" became "Entry-level"
ExperiencePriorityWitness ==
    \E r \in Runs :
        /\ "experience_level" \in DOMAIN states[r]
        /\ Contains(KwSenior, Low(r, 1))
        /\ Contains(KwEntry, Low(r, 1))
        /\ Position(KwSenior, Low(r, 1)) < Position(KwEntry, Low(r, 1))
        /\ states[r]["experience_level"] = "Entry-level"

\* the reply contains none of the level keywords
NoLevelKeyword(low) == KeywordCount(low) = 0

\* the reply contains neither "no match" nor "match"
NoSkillKeyword(low) == ~Contains(KwNoMatch, low) /\ ~Contains(KwMatch, low)

\* C8: an unrecognized reply is no error: the stage that received it sets
\* "Unknown" (level) or "No Match" (skill) and the run goes on; a run is
\* raised only by a failed classifier call, and a returned run whose two
\* replies were both unrecognized returns "Candidate Rejected".
UnrecognizedIsNormal ==
    \A r \in Runs :
        /\ pc[r] = "raised" => Failed(r)
        /\ (Len(replies[r]) >= 1 /\ replies[r][1].ok /\ NoLevelKeyword(Low(r, 1))) =>
               get(states[r], "experience_level", None) = "Unknown"
        /\ (Len(replies[r]) >= 2 /\ replies[r][2].ok /\ NoSkillKeyword(Low(r, 2))) =>
               /\ get(states[r], "skill_match", None) = "No Match"
               /\ pc[r] \in {"route_app", "escalate_to_recruiter",
                             "reject_application", "END", "returned"}
        /\ ( /\ pc[r] = "returned"
             /\ NoLevelKeyword(Low(r, 1))
             /\ NoSkillKeyword(Low(r, 2)) ) =>
               result[r] = [experience_level |-> "Unknown",
                            skill_match |-> "No Match",
                            response |-> "Candidate Rejected"]

\* a run with two unrecognized replies returned a rejection
UnrecognizedIsNormalWitness ==
    \E r \in Runs :
        /\ pc[r] = "returned"
        /\ NoLevelKeyword(Low(r, 1))
        /\ NoSkillKeyword(Low(r, 2))
        /\ result[r]["response"] = "Candidate Rejected"

\* C9: a returned result has the three fields, and a run that reached END has
\* every field set by a node, so each returned field is the field of the final
\* state and no default of the readback is used.
NoDefaultSubstituted ==
    \A r \in Runs :
        /\ Ended(r) => Fields \subseteq DOMAIN states[r]
        /\ pc[r] = "returned" =>
               /\ DOMAIN result[r] = Fields
               /\ \A k \in Fields :
                      k \in DOMAIN states[r] /\ result[r][k] = states[r][k]

\* a rejected run returned the response its terminal node wrote
NoDefaultSubstitutedWitness ==
    \E r \in Runs :
        /\ pc[r] = "returned"
        /\ trace[r][Len(trace[r])] = "reject_application"
        /\ states[r]["response"] = "Candidate Rejected"
        /\ result[r] = [k \in Fields |-> states[r][k]]

\* the response the routing rule gives to a level and a skill verdict
Decision(level, verdict) ==
    IF verdict = "Match" THEN "Interview Scheduled"
    ELSE IF level = "Senior-level" THEN "Candidate Escalated"
    ELSE "Candidate Rejected"

\* the state record of run r is what its own text and own replies determine
OwnState(r) ==
    LET n == Len(replies[r])
        st == states[r]
    IN  /\ pc[r] = "idle" => DOMAIN st = {}
        /\ pc[r] # "idle" => "application" \in DOMAIN st /\ st["application"] = input[r]
        /\ "experience_level" \in DOMAIN st <=> (n >= 1 /\ replies[r][1].ok)
        /\ "experience_level" \in DOMAIN st =>
               st["experience_level"] = exp(strip(replies[r][1].content))
        /\ "skill_match" \in DOMAIN st <=> (n >= 2 /\ replies[r][2].ok)
        /\ "skill_match" \in DOMAIN st =>
               st["skill_match"] = skill(strip(replies[r][2].content))
        /\ "response" \in DOMAIN st <=> Ended(r)
        /\ "response" \in DOMAIN st =>
               st["response"] = Decision(st["experience_level"], st["skill_match"])

\* C10: with two screenings interleaved, the state record and the result of
\* each run are determined by its own text and its own classifier replies, a
\* run is raised only by its own failed call, and a step of one run changes
\* nothing of the other run.
Independent ==
    /\ [](\A r \in Runs :
            /\ OwnState(r)
            /\ pc[r] = "raised" <=> Failed(r)
            /\ pc[r] = "returned" =>
                   result[r] =
                       [experience_level |-> exp(strip(replies[r][1].content)),
                        skill_match |-> skill(strip(replies[r][2].content)),
                        response |-> Decision(exp(strip(replies[r][1].content)),
                                              skill(strip(replies[r][2].content)))])
    /\ [][\A r \in Runs :
            pc'[r] = pc[r] =>
                /\ states'[r] = states[r]
                /\ result'[r] = result[r]
                /\ replies'[r] = replies[r]]_vars

\* run 1 is blocked in its second classifier call, its level being "Unknown",
\* while run 2, on another text and with level "Senior-level", was aborted
IndependentWitness ==
    /\ pc[1] = "assess_skillset.invoke"
    /\ Len(calls[1]) = 2
    /\ Len(replies[1]) = 1
    /\ states[1]["experience_level"] = "Unknown"
    /\ pc[2] = "raised"
    /\ Len(replies[2]) = 2
    /\ states[2]["experience_level"] = "Senior-level"
    /\ input[1] # input[2]

\* how many updates of run r wrote the field k
WriteCount(r, k) == Cardinality({i \in 1..Len(writes[r]) : k \in writes[r][i]})

\* how many of the executed stages of run r are in the set S
StageCount(r, S) == Cardinality({i \in 1..Len(trace[r]) : trace[r][i] \in S})

\* C11: in no state have two terminal nodes of a run executed or response
\* been written twice; response is written by terminal nodes only; a run that
\* completed has executed exactly one terminal node and written response once.
OneTerminalStage ==
    \A r \in Runs :
        /\ StageCount(r, Terminals) <= 1
        /\ WriteCount(r, "response") = StageCount(r, Terminals)
        /\ Ended(r) =>
               /\ StageCount(r, Terminals) = 1
               /\ WriteCount(r, "response") = 1
               /\ trace[r][Len(trace[r])] \in Terminals

\* a completed run whose only terminal node was escalate_to_recruiter
OneTerminalStageWitness ==
    \E r \in Runs :
        /\ pc[r] = "returned"
        /\ trace[r][Len(trace[r])] = "escalate_to_recruiter"
        /\ StageCount(r, Terminals) = 1
        /\ WriteCount(r, "response") = 1

\* route_app is about to be evaluated, or was evaluated, in run r
AtOrPastRouting(r) == pc[r] = "route_app" \/ StageCount(r, {"route_app"}) > 0

\* C12: experience_level and skill_match are never written twice in a run,
\* and when route_app is evaluated (and ever after) each has been written
\* exactly once and is set in the state route_app reads.
WrittenOnceBeforeRouting ==
    \A r \in Runs :
        \A k \in {"experience_level", "skill_match"} :
            /\ WriteCount(r, k) <= 1
            /\ AtOrPastRouting(r) => WriteCount(r, k) = 1 /\ k \in DOMAIN states[r]

\* route_app is about to read a state with an "Unknown" level and a verdict
WrittenOnceBeforeRoutingWitness ==
    \E r \in Runs :
        /\ pc[r] = "route_app"
        /\ states[r]["experience_level"] = "Unknown"
        /\ "skill_match" \in DOMAIN states[r]
        /\ WriteCount(r, "experience_level") = 1
        /\ WriteCount(r, "skill_match") = 1

\* the order of the stages before the terminal node
StageOrder == <<"categorize_experience", "assess_skillset", "route_app">>

\* C13: the executed stages of a run are a prefix of categorize_experience,
\* assess_skillset, route_app, one terminal node; the stage about to execute
\* is the next of that order; no stage executes twice and none after the
\* terminal node; a run that ended executed all four, an aborted run stopped
\* at the classifier node whose call failed.
StageOrdering ==
    \A r \in Runs :
        LET n == Len(trace[r])
        IN  /\ n <= 4
            /\ \A i \in 1..n : IF i <= 3 THEN trace[r][i] = StageOrder[i]
                                         ELSE trace[r][i] \in Terminals
            /\ \A i, j \in 1..n : i # j => trace[r][i] # trace[r][j]
            /\ pc[r] = "idle" => n = 0
            /\ \A i \in 1..3 : pc[r] = StageOrder[i] => n = i - 1
            /\ pc[r] = "categorize_experience.invoke" => n = 1
            /\ pc[r] = "assess_skillset.invoke" => n = 2
            /\ pc[r] \in Terminals => n = 3
            /\ Ended(r) => n = 4
            /\ pc[r] = "raised" => n \in {1, 2}

\* a run went through the four stages, rejecting, and ended
StageOrderingWitness ==
    \E r \in Runs :
        /\ pc[r] = "END"
        /\ trace[r] = <<"categorize_experience", "assess_skillset", "route_app",
                        "reject_application">>

\* C14: application is written once, when the run starts; in every state of
\* a started run it is the text passed to run_candidate_screening, no step
\* changes it, and every classifier call received that text.
ApplicationImmutable ==
    /\ [](\A r \in Runs :
            pc[r] # "idle" =>
                /\ "application" \in DOMAIN states[r]
                /\ states[r]["application"] = input[r]
                /\ writes[r][1] = {"application"}
                /\ WriteCount(r, "application") = 1
                /\ \A i \in 1..Len(calls[r]) : calls[r][i].application = input[r])
    /\ [][\A r \in Runs :
            pc[r] # "idle" =>
                /\ input'[r] = input[r]
                /\ states'[r]["application"] = states[r]["application"]]_vars

\* a returned run on a non-empty text whose two calls received that text
ApplicationImmutableWitness ==
    \E r \in Runs :
        /\ pc[r] = "returned"
        /\ input[r] # ""
        /\ states[r]["application"] = input[r]
        /\ Len(calls[r]) = 2
        /\ calls[r][1].application = input[r]
        /\ calls[r][2].application = input[r]

\* the nodes that call the classifier, in the order of their calls
CallOrder == <<"categorize_experience", "assess_skillset">>

\* C15: a run makes at most two classifier calls, the first by
\* categorize_experience and the second by assess_skillset; only executions of
\* these two nodes make calls; a run that ended made exactly two; after a
\* failed first call no second call is made.
TwoClassifierCalls ==
    \A r \in Runs :
        /\ Len(calls[r]) <= 2
        /\ \A i \in 1..Len(calls[r]) : calls[r][i].node = CallOrder[i]
        /\ Len(calls[r]) = StageCount(r, {"categorize_experience", "assess_skillset"})
        /\ Len(replies[r]) =
               IF pc[r] \in {"categorize_experience.invoke", "assess_skillset.invoke"}
               THEN Len(calls[r]) - 1 ELSE Len(calls[r])
        /\ Ended(r) => Len(calls[r]) = 2
        /\ (Len(replies[r]) >= 1 /\ ~replies[r][1].ok) => Len(calls[r]) = 1

\* a rejected run has returned after exactly two calls
TwoClassifierCallsWitness ==
    \E r \in Runs :
        /\ pc[r] = "returned"
        /\ trace[r][Len(trace[r])] = "reject_application"
        /\ Len(calls[r]) = 2
        /\ calls[r][1].node = "categorize_experience"
        /\ calls[r][2].node = "assess_skillset"

ExperienceLevels == {"Entry-level", "Mid-level", "Senior-level", "Unknown"}

SkillVerdicts == {"Match", "No Match"}

\* C16: in every state each field that is set, in the state record or in the
\* returned result, has a value of its domain, whatever the replies were.
FieldDomains ==
    \A r \in Runs :
        /\ \A d \in {states[r], result[r]} :
              /\ "experience_level" \in DOMAIN d =>
                     d["experience_level"] \in ExperienceLevels
              /\ "skill_match" \in DOMAIN d => d["skill_match"] \in SkillVerdicts
              /\ "response" \in DOMAIN d => d["response"] \in Responses

\* the three fields are set after two replies that are not labels of the prompt
FieldDomainsWitness ==
    \E r \in Runs :
        /\ pc[r] = "END"
        /\ Fields \subseteq DOMAIN states[r]
        /\ Low(r, 1) \notin {lower(<<"E", "n", "t", "r", "y", "-", "l", "e", "v", "e", "l">>),
                             lower(<<"M", "i", "d", "-", "l", "e", "v", "e", "l">>),
                             lower(<<"S", "e", "n", "i", "o", "r", "-", "l", "e", "v", "e", "l">>)}
        /\ Low(r, 2) \notin {KwMatch, KwNoMatch}
        /\ states[r]["skill_match"] = "Match"

\* C17: a terminal node changes neither experience_level nor skill_match, and
\* in every returned result response is "Interview Scheduled" iff skill_match
\* is "Match", "Candidate Escalated" iff skill_match is "No Match" and
\* experience_level is "Senior-level", and "Candidate Rejected" otherwise.
ResultConsistent ==
    /\ [](\A r \in Runs :
            pc[r] = "returned" =>
                LET res == result[r]
                IN  /\ res["response"] = "Interview Scheduled"
                        <=> res["skill_match"] = "Match"
                    /\ res["response"] = "Candidate Escalated"
                        <=> ( /\ res["skill_match"] = "No Match"
                              /\ res["experience_level"] = "Senior-level" )
                    /\ res["response"] = "Candidate Rejected"
                        <=> ( /\ res["skill_match"] # "Match"
                              /\ res["experience_level"] # "Senior-level" )
                    /\ res["experience_level"] = exp(strip(replies[r][1].content))
                    /\ res["skill_match"] = skill(strip(replies[r][2].content)))
    /\ [][\A r \in Runs :
            pc[r] \in Terminals =>
                /\ states'[r]["experience_level"] = states[r]["experience_level"]
                /\ states'[r]["skill_match"] = states[r]["skill_match"]]_vars

\* an entry-level candidate with matching skills was returned as scheduled
ResultConsistentWitness ==
    \E r \in Runs :
        /\ pc[r] = "returned"
        /\ trace[r][Len(trace[r])] = "schedule_interview"
        /\ result[r] = [experience_level |-> "Entry-level",
                        skill_match |-> "Match",
                        response |-> "Interview Scheduled"]
====
